---- MODULE Spec2Model ----
(***************************************************************************)
(* State-machine model of the netview core:                                *)
(*   dist.rs       make_symmetrical, euclidean_distance_of_distances       *)
(*   mknn.rs       k_mutual_nearest_neighbors, convert_to_graph            *)
(*   centrality.rs degree/closeness/betweenness centrality                 *)
(*   label.rs      label_propagation                                       *)
(*                                                                         *)
(* Matrices are sequences of rows; cell (i,j) of the source (0-based) is   *)
(* m[i+1][j+1].  Node and row indices keep the 0-based values of the       *)
(* source.  Distances are naturals; a square root is a fixed-point number  *)
(* with SqrtScale units per 1.0.                                           *)
(***************************************************************************)
EXTENDS Integers, Sequences, FiniteSets, TLC

VARIABLES
    \* euclidean_distance_of_distances
    distance_matrix, is_lower_triangular, num_threads, chunk_size,
    dist_pc, next_row, running, task_out, distances, dist_result,
    \* k_mutual_nearest_neighbors
    mk_matrix, k, mk_pc, matrix, nearest_neighbors, mk_result,
    \* convert_to_graph
    mutual_nearest_neighbors, g_distance, g_pc, graph_result,
    \* label_propagation
    graph, centrality_metric, max_iterations, vote_weights,
    neighbor_centrality_vote, distance_percent, query_nodes,
    propagate_on_unlabeled,
    lp_pc, centrality, target_nodes, iter, passes, vote_pos, new_labels,
    label_votes, bc_source, predecessors,
    scores, std_calls

dist_vars == <<distance_matrix, is_lower_triangular, num_threads, chunk_size,
               dist_pc, next_row, running, task_out, distances, dist_result>>

mknn_vars == <<mk_matrix, k, mk_pc, matrix, nearest_neighbors, mk_result>>

graph_vars == <<mutual_nearest_neighbors, g_distance, g_pc, graph_result>>

lp_args == <<centrality_metric, max_iterations, vote_weights,
             neighbor_centrality_vote, distance_percent, query_nodes,
             propagate_on_unlabeled>>

label_vars == <<graph, lp_args, lp_pc, centrality, target_nodes, iter, passes,
                vote_pos, new_labels, label_votes, bc_source, predecessors>>

std_vars == <<scores, std_calls>>

vars == <<dist_vars, mknn_vars, graph_vars, label_vars, std_vars>>

----------------------------------------------------------------------------
\* Bounds of the model

MaxN == 3
MaxVal == 2
MaxThreads == 2
MaxChunk == 2
MaxIterations == 3
MaxPredecessors == 3
DefaultPoolSize == 2
SqrtScale == 100
MaxStdCalls == 2

----------------------------------------------------------------------------
\* Generic helpers

None == [some |-> FALSE, val |-> 0]
Some(x) == [some |-> TRUE, val |-> x]

Max2(a, b) == IF a >= b THEN a ELSE b
Min2(a, b) == IF a <= b THEN a ELSE b

RECURSIVE FlattenSeq(_)
FlattenSeq(ss) ==
    IF ss = <<>> THEN <<>> ELSE Head(ss) \o FlattenSeq(Tail(ss))

\* Rows and cells of a Vec<Vec<f64>>
NRows(m) == Len(m)
RowLen(m, i) == Len(m[i + 1])
HasCell(m, i, j) == i >= 0 /\ i < Len(m) /\ j >= 0 /\ j < Len(m[i + 1])
Cell(m, i, j) == m[i + 1][j + 1]

IsSquare(m) == \A i \in 0..(Len(m) - 1) : RowLen(m, i) = Len(m)
IsLowerTriangular(m) == \A i \in 0..(Len(m) - 1) : RowLen(m, i) = i + 1

\* f64::sqrt, as a fixed-point number: the largest r with r*r <= s*SqrtScale^2
RECURSIVE SqrtSearch(_, _, _)
SqrtSearch(t, lo, hi) ==
    IF lo >= hi THEN lo
    ELSE LET mid == (lo + hi + 1) \div 2
         IN  IF mid * mid <= t THEN SqrtSearch(t, mid, hi)
             ELSE SqrtSearch(t, lo, mid - 1)

Sqrt(s) == SqrtSearch(s * SqrtScale * SqrtScale, 0, (s + 1) * SqrtScale)

----------------------------------------------------------------------------
\* Input matrices

LowerPairs(n) == {p \in (0..(n - 1)) \X (0..(n - 1)) : p[2] < p[1]}

\* symmetric, zero diagonal, off-diagonal distances given by f
SymmetricOf(n, f) ==
    [i \in 1..n |-> [j \in 1..n |->
        IF i = j THEN 0 ELSE f[<<Max2(i, j) - 1, Min2(i, j) - 1>>]]]

\* the same distances in lower-triangular encoding: row i has i+1 entries
LowerTriangularOf(n, f) ==
    [i \in 1..n |-> [j \in 1..i |->
        IF i = j THEN 0 ELSE f[<<i - 1, j - 1>>]]]

\* every pair at the smallest or at the largest distance
PairValues(n) == [LowerPairs(n) -> {1, MaxVal}]

\* rows longer than the number of rows
WideInputs == { << <<0, 1, 2>>, <<1, 0, 2>> >>, << <<0, 1>> >> }

DistInputs ==
    UNION {{SymmetricOf(n, f) : f \in PairValues(n)} : n \in 0..MaxN}
    \cup UNION {{LowerTriangularOf(n, f) : f \in PairValues(n)} : n \in 0..MaxN}
    \cup WideInputs

----------------------------------------------------------------------------
\* Results of a call

NoResult == [status |-> "none", value |-> <<>>]
Ok(v) == [status |-> "Ok", value |-> v]
Err(e) == [status |-> e, value |-> <<>>]
Panic == [status |-> "panic", value |-> <<>>]

----------------------------------------------------------------------------
\* dist.rs: make_symmetrical

\* the else branch without the mirrored assignment sym_matrix[j][i]
make_symmetrical_lower_half(m) ==
    LET n == Len(m)
    IN  IF n = 0 THEN Err("EmptyMatrix")
        ELSE IF \A i \in 0..(n - 1) : RowLen(m, i) = n THEN Ok(m)
        ELSE IF \E i \in 0..(n - 1) : RowLen(m, i) < i + 1 THEN Panic
        ELSE Ok([i \in 1..n |-> [j \in 1..n |->
                    IF j <= i THEN Cell(m, i - 1, j - 1) ELSE 0]])

make_symmetrical(m) ==
    LET n == Len(m)
    IN  IF n = 0 THEN Err("EmptyMatrix")
        ELSE IF \A i \in 0..(n - 1) : RowLen(m, i) = n THEN Ok(m)
        ELSE IF \E i \in 0..(n - 1) : RowLen(m, i) < i + 1 THEN Panic
        ELSE Ok([i \in 1..n |-> [j \in 1..n |->
                    Cell(m, Max2(i, j) - 1, Min2(i, j) - 1)]])

----------------------------------------------------------------------------
\* dist.rs: euclidean_distance_of_distances

\* the closure compute_distance(i, j): the cells it indexes
ComputeDistanceCells(lower, i, j, col) ==
    {IF lower /\ i < col THEN <<col, i>> ELSE <<i, col>>,
     IF lower /\ j < col THEN <<col, j>> ELSE <<j, col>>}

\* an index out of bounds panics
ComputeDistancePanics(m, lower, i, j) ==
    \E col \in 0..(Len(m) - 1) :
        \E c \in ComputeDistanceCells(lower, i, j, col) : ~HasCell(m, c[1], c[2])

\* compute_distance with the wrong column in the lower-triangular lookup of val_j
RECURSIVE ComputeDistanceSumWrongLookup(_, _, _, _, _)
ComputeDistanceSumWrongLookup(m, lower, i, j, col) ==
    IF col >= Len(m) THEN 0
    ELSE LET val_i == IF lower /\ i < col THEN Cell(m, col, i) ELSE Cell(m, i, col)
             val_j == IF lower /\ j < col THEN Cell(m, col, i) ELSE Cell(m, j, col)
         IN  (val_i - val_j) * (val_i - val_j)
             + ComputeDistanceSumWrongLookup(m, lower, i, j, col + 1)

RECURSIVE ComputeDistanceSum(_, _, _, _, _)
ComputeDistanceSum(m, lower, i, j, col) ==
    IF col >= Len(m) THEN 0
    ELSE LET val_i == IF lower /\ i < col THEN Cell(m, col, i) ELSE Cell(m, i, col)
             val_j == IF lower /\ j < col THEN Cell(m, col, j) ELSE Cell(m, j, col)
         IN  (val_i - val_j) * (val_i - val_j)
             + ComputeDistanceSum(m, lower, i, j, col + 1)

compute_distance(m, lower, i, j) == Sqrt(ComputeDistanceSum(m, lower, i, j, 0))

\* the inner loop of one row i: (i, j, compute_distance(i, j)) for j in i+1..n
RowPairs(m, lower, i) ==
    [x \in 1..(Len(m) - 1 - i) |->
        <<i, i + x, compute_distance(m, lower, i, i + x)>>]

RowPanics(m, lower, i) ==
    \E j \in (i + 1)..(Len(m) - 1) : ComputeDistancePanics(m, lower, i, j)

\* execution mode chosen by num_threads / chunk_size
Mode(nt, cs) ==
    IF nt.some /\ ~cs.some THEN "pool"
    ELSE IF nt.some /\ cs.some THEN "chunks"
    ELSE "sequential"

\* rayon: num_threads(0) selects the default pool size
PoolSize(nt) == IF nt.val = 0 THEN DefaultPoolSize ELSE nt.val

\* the parallel tasks: one per row, or one per chunk of chunk_size rows
NumTasks(n, nt, cs) ==
    IF Mode(nt, cs) = "chunks" THEN (n + cs.val - 1) \div cs.val ELSE n

\* chunks that start one row late
TaskRowsShifted(n, nt, cs, t) ==
    IF Mode(nt, cs) = "chunks"
    THEN [x \in 1..(Min2((t + 1) * cs.val, n) - t * cs.val) |-> t * cs.val + x]
    ELSE <<t>>

TaskRows(n, nt, cs, t) ==
    IF Mode(nt, cs) = "chunks"
    THEN [x \in 1..(Min2((t + 1) * cs.val, n) - t * cs.val) |-> t * cs.val + x - 1]
    ELSE <<t>>

TaskPairs(m, lower, nt, cs, t) ==
    LET rows == TaskRows(Len(m), nt, cs, t)
    IN  FlattenSeq([x \in 1..Len(rows) |-> RowPairs(m, lower, rows[x])])

TaskPanics(m, lower, nt, cs, t) ==
    LET rows == TaskRows(Len(m), nt, cs, t)
    IN  \E x \in 1..Len(rows) : RowPanics(m, lower, rows[x])

\* a fill that forgets the mirrored cell
RECURSIVE FillMatrixUpperOnly(_, _)
FillMatrixUpperOnly(res, ds) ==
    IF ds = <<>> THEN res
    ELSE LET d == Head(ds)
         IN  FillMatrixUpperOnly([res EXCEPT ![d[1] + 1][d[2] + 1] = d[3]], Tail(ds))

\* result_matrix: vec![vec![0.0; n]; n] overwritten in the order of distances
RECURSIVE FillMatrix(_, _)
FillMatrix(res, ds) ==
    IF ds = <<>> THEN res
    ELSE LET d == Head(ds)
             r1 == [res EXCEPT ![d[1] + 1][d[2] + 1] = d[3]]
             r2 == [r1 EXCEPT ![d[2] + 1][d[1] + 1] = d[3]]
         IN  FillMatrix(r2, Tail(ds))

ZeroMatrix(n) == [i \in 1..n |-> [j \in 1..n |-> 0]]

DistInit ==
    /\ distance_matrix \in DistInputs
    /\ is_lower_triangular \in BOOLEAN
    /\ num_threads \in {None} \cup {Some(t) : t \in 0..MaxThreads}
    /\ chunk_size \in {None} \cup {Some(c) : c \in 1..MaxChunk}
    /\ dist_pc = "run"
    /\ next_row = 0
    /\ running = {}
    /\ task_out = <<>>
    /\ distances = <<>>
    /\ dist_result = NoResult

DistIdle ==
    /\ distance_matrix = <<>>
    /\ is_lower_triangular = FALSE
    /\ num_threads = None
    /\ chunk_size = None
    /\ dist_pc = "idle"
    /\ next_row = 0
    /\ running = {}
    /\ task_out = <<>>
    /\ distances = <<>>
    /\ dist_result = NoResult

DistTasks == 0..(NumTasks(Len(distance_matrix), num_threads, chunk_size) - 1)
DistDone == {t \in DistTasks : task_out[t + 1] # "pending"}

\* the sequential branch: one iteration of `for i in 0..n`
EddSequentialRow ==
    /\ dist_pc = "run"
    /\ Mode(num_threads, chunk_size) = "sequential"
    /\ next_row < Len(distance_matrix)
    /\ IF RowPanics(distance_matrix, is_lower_triangular, next_row)
       THEN /\ dist_pc' = "done"
            /\ dist_result' = Panic
            /\ UNCHANGED <<next_row, distances>>
       ELSE /\ distances' = distances
                   \o RowPairs(distance_matrix, is_lower_triangular, next_row)
            /\ next_row' = next_row + 1
            /\ UNCHANGED <<dist_pc, dist_result>>
    /\ UNCHANGED <<distance_matrix, is_lower_triangular, num_threads,
                   chunk_size, running, task_out>>
    /\ UNCHANGED <<mknn_vars, graph_vars, label_vars, std_vars>>

\* the pool is installed: every task is pending
EddInstall ==
    /\ dist_pc = "run"
    /\ Mode(num_threads, chunk_size) # "sequential"
    /\ dist_pc' = "pool"
    /\ task_out' = [t \in 1..NumTasks(Len(distance_matrix), num_threads, chunk_size)
                        |-> "pending"]
    /\ UNCHANGED <<distance_matrix, is_lower_triangular, num_threads,
                   chunk_size, next_row, running, distances, dist_result>>
    /\ UNCHANGED <<mknn_vars, graph_vars, label_vars, std_vars>>

\* a free worker of the pool picks any pending task
EddTaskStart(t) ==
    /\ dist_pc = "pool"
    /\ t \in DistTasks \ (DistDone \cup running)
    /\ Cardinality(running) < PoolSize(num_threads)
    /\ running' = running \cup {t}
    /\ UNCHANGED <<distance_matrix, is_lower_triangular, num_threads,
                   chunk_size, dist_pc, next_row, task_out, distances, dist_result>>
    /\ UNCHANGED <<mknn_vars, graph_vars, label_vars, std_vars>>

\* a worker finishes its task; a panic in a task propagates to the caller
EddTaskFinish(t) ==
    /\ dist_pc = "pool"
    /\ t \in running
    /\ running' = running \ {t}
    /\ IF TaskPanics(distance_matrix, is_lower_triangular, num_threads, chunk_size, t)
       THEN /\ dist_pc' = "done"
            /\ dist_result' = Panic
            /\ UNCHANGED task_out
       ELSE /\ task_out' = [task_out EXCEPT ![t + 1] =
                   TaskPairs(distance_matrix, is_lower_triangular,
                             num_threads, chunk_size, t)]
            /\ UNCHANGED <<dist_pc, dist_result>>
    /\ UNCHANGED <<distance_matrix, is_lower_triangular, num_threads,
                   chunk_size, next_row, distances>>
    /\ UNCHANGED <<mknn_vars, graph_vars, label_vars, std_vars>>

\* collect(): the task outputs, concatenated in task order
EddCollect ==
    /\ dist_pc = "pool"
    /\ DistDone = DistTasks
    /\ distances' = FlattenSeq(task_out)
    /\ dist_pc' = "fill"
    /\ UNCHANGED <<distance_matrix, is_lower_triangular, num_threads,
                   chunk_size, next_row, running, task_out, dist_result>>
    /\ UNCHANGED <<mknn_vars, graph_vars, label_vars, std_vars>>

\* the result matrix is filled and returned
EddFill ==
    /\ \/ dist_pc = "fill"
       \/ /\ dist_pc = "run"
          /\ Mode(num_threads, chunk_size) = "sequential"
          /\ next_row >= Len(distance_matrix)
    /\ dist_result' = Ok(FillMatrix(ZeroMatrix(Len(distance_matrix)), distances))
    /\ dist_pc' = "done"
    /\ UNCHANGED <<distance_matrix, is_lower_triangular, num_threads,
                   chunk_size, next_row, running, task_out, distances>>
    /\ UNCHANGED <<mknn_vars, graph_vars, label_vars, std_vars>>

DistNext ==
    \/ EddSequentialRow
    \/ EddInstall
    \/ \E t \in 0..MaxN : EddTaskStart(t)
    \/ \E t \in 0..MaxN : EddTaskFinish(t)
    \/ EddCollect
    \/ EddFill

----------------------------------------------------------------------------
\* mknn.rs: k_mutual_nearest_neighbors

\* square matrices with zero diagonal: the symmetric ones, and those with the
\* cell (0, 1) of a symmetric one set to another distance
SquareMatrices(n) ==
    LET symmetric == {SymmetricOf(n, f) : f \in PairValues(n)}
    IN  symmetric \cup
        (IF n < 2 THEN {}
         ELSE {[m EXCEPT ![1][2] = v] : m \in symmetric, v \in 1..MaxVal})

\* rows of any length up to n, filled with 0 or with 1
RowsUpTo(n) == {[x \in 1..l |-> v] : l \in 0..n, v \in 0..1}
RaggedMatrices == UNION {[1..r -> RowsUpTo(MaxN)] : r \in 0..(MaxN - 1)}

\* the matrices of the unit tests and of the scenarios of the specification
ScenarioMatrices ==
    { << <<0, 1, 2, 3>>, <<1, 0, 3, 2>>, <<2, 3, 0, 1>>, <<3, 2, 1, 0>> >>,
      << <<0, 2, 3, 4>>, <<2, 0, 4, 5>>, <<3, 4, 0, 1>>, <<4, 5, 1, 0>> >>,
      << <<0, 1, 1, 1>>, <<1, 0, 1, 1>>, <<1, 1, 0, 1>>, <<1, 1, 1, 0>> >>,
      << <<0, 2, 1>>, <<2, 0, 3>>, <<1, 3, 0>> >>,
      << <<0, 1, 2>>, <<1, 0, 3>>, <<2, 3, 0>> >>,
      << <<0>>, <<1, 0>> >>,
      << <<0, 2>>, <<2, 0, 1>> >> }

MknnInputs ==
    UNION {SquareMatrices(n) : n \in 0..MaxN}
    \cup UNION {{LowerTriangularOf(n, f) : f \in PairValues(n)} : n \in 0..MaxN}
    \cup RaggedMatrices
    \cup ScenarioMatrices

\* neighbors.sort_by(distance): a stable sort of (index, distance) pairs
InsertByDistance(sorted, e) ==
    LET p == Cardinality({x \in 1..Len(sorted) : sorted[x][2] <= e[2]})
    IN  SubSeq(sorted, 1, p) \o <<e>> \o SubSeq(sorted, p + 1, Len(sorted))

RECURSIVE SortByDistance(_)
SortByDistance(s) ==
    IF s = <<>> THEN <<>>
    ELSE InsertByDistance(SortByDistance(SubSeq(s, 1, Len(s) - 1)), s[Len(s)])

Take(s, c) == SubSeq(s, 1, Min2(c, Len(s)))

\* the (j, matrix[i][j]) pairs of row i, j ascending, i itself left out
RowNeighbors(m, i) ==
    LET others == [x \in 1..(Len(m) - 1) |-> IF x - 1 < i THEN x - 1 ELSE x]
    IN  [x \in 1..Len(others) |-> <<others[x], Cell(m, i, others[x])>>]

Reverse(s) == [x \in 1..Len(s) |-> s[Len(s) + 1 - x]]

\* the same closure with a sort that puts the larger index first among equals
KNearestLargerIndexFirst(m, i, kk) ==
    LET sorted == SortByDistance(Reverse(RowNeighbors(m, i)))
    IN  Take([x \in 1..Len(sorted) |-> sorted[x][1]], kk)

\* the closure of the parallel map: the k nearest indices of row i
KNearest(m, i, kk) ==
    LET sorted == SortByDistance(RowNeighbors(m, i))
    IN  Take([x \in 1..Len(sorted) |-> sorted[x][1]], kk)

Contains(s, e) == \E x \in 1..Len(s) : s[x] = e

\* the mutuality filter without the reciprocal test
MutualOfOneSided(nn) == nn

\* the mutuality filter over the nearest-neighbour lists
MutualOf(nn) ==
    [x \in 1..Len(nn) |->
        LET Reciprocal(j) == Contains(nn[j + 1], x - 1)
        IN  SelectSeq(nn[x], Reciprocal)]

\* an upper limit that lets k = n through
KOutOfRangeLoose(kk, n) == kk = 0 \/ kk > n

\* if k == 0 || k >= n
KOutOfRange(kk, n) == kk = 0 \/ kk >= n

MknnInit ==
    /\ mk_matrix \in MknnInputs
    /\ k \in 0..(MaxN + 1)
    /\ mk_pc = "start"
    /\ matrix = <<>>
    /\ nearest_neighbors = <<>>
    /\ mk_result = NoResult

MknnIdle ==
    /\ mk_matrix = <<>>
    /\ k = 0
    /\ mk_pc = "idle"
    /\ matrix = <<>>
    /\ nearest_neighbors = <<>>
    /\ mk_result = NoResult

\* if n == 0 || distance_matrix.iter().any(|row| row.len() > n)
MatrixInvalid(m) ==
    Len(m) = 0 \/ \E i \in 0..(Len(m) - 1) : RowLen(m, i) > Len(m)

\* the two tests in the other order
ValidationErrorKFirst(m, kk) ==
    IF KOutOfRange(kk, Len(m)) THEN "InvalidK"
    ELSE IF MatrixInvalid(m) THEN "InvalidMatrix"
    ELSE "none"

\* the early returns: the matrix test, then the k test
ValidationError(m, kk) ==
    IF MatrixInvalid(m) THEN "InvalidMatrix"
    ELSE IF KOutOfRange(kk, Len(m)) THEN "InvalidK"
    ELSE "none"

\* the value of one call, rows collected by index
k_mutual_nearest_neighbors(m, kk) ==
    IF ValidationError(m, kk) # "none" THEN Err(ValidationError(m, kk))
    ELSE IF make_symmetrical(m).status # "Ok" THEN make_symmetrical(m)
    ELSE LET sym == make_symmetrical(m).value
         IN  Ok(MutualOf([x \in 1..Len(sym) |-> KNearest(sym, x - 1, kk)]))

\* validation and make_symmetrical
MknnValidate ==
    /\ mk_pc = "start"
    /\ LET n == Len(mk_matrix)
           sym == make_symmetrical(mk_matrix)
       IN  IF ValidationError(mk_matrix, k) # "none"
           THEN /\ mk_result' = Err(ValidationError(mk_matrix, k))
                /\ mk_pc' = "done"
                /\ UNCHANGED <<matrix, nearest_neighbors>>
           ELSE IF sym.status # "Ok"
           THEN /\ mk_result' = sym
                /\ mk_pc' = "done"
                /\ UNCHANGED <<matrix, nearest_neighbors>>
           ELSE /\ matrix' = sym.value
                /\ nearest_neighbors' = [x \in 1..n |-> "pending"]
                /\ mk_pc' = "rows"
                /\ UNCHANGED mk_result
    /\ UNCHANGED <<mk_matrix, k>>
    /\ UNCHANGED <<dist_vars, graph_vars, label_vars, std_vars>>

\* one row of (0..n).into_par_iter().map(..): rows finish in any order
MknnRow(i) ==
    /\ mk_pc = "rows"
    /\ i < Len(matrix)
    /\ nearest_neighbors[i + 1] = "pending"
    /\ nearest_neighbors' = [nearest_neighbors EXCEPT ![i + 1] = KNearest(matrix, i, k)]
    /\ UNCHANGED <<mk_matrix, k, mk_pc, matrix, mk_result>>
    /\ UNCHANGED <<dist_vars, graph_vars, label_vars, std_vars>>

\* the sequential mutuality filter and the return
MknnMutual ==
    /\ mk_pc = "rows"
    /\ \A x \in 1..Len(nearest_neighbors) : nearest_neighbors[x] # "pending"
    /\ mk_result' = Ok(MutualOf(nearest_neighbors))
    /\ mk_pc' = "done"
    /\ UNCHANGED <<mk_matrix, k, matrix, nearest_neighbors>>
    /\ UNCHANGED <<dist_vars, graph_vars, label_vars, std_vars>>

MknnNext ==
    \/ MknnValidate
    \/ \E i \in 0..MaxN : MknnRow(i)
    \/ MknnMutual

----------------------------------------------------------------------------
\* mknn.rs: convert_to_graph

\* every (node, neighbor) entry in the order of the two nested loops
NeighborEntries(mnn) ==
    FlattenSeq([x \in 1..Len(mnn) |-> [y \in 1..Len(mnn[x]) |-> <<x - 1, mnn[x][y]>>]])

\* the weight of the edge node -- neighbor
EdgeDistance(dm, node, neighbor) ==
    IF dm.some /\ HasCell(dm.val, node, neighbor)
    THEN Cell(dm.val, node, neighbor)
    ELSE 1

convert_to_graph(mnn, dm) ==
    LET entries == NeighborEntries(mnn)
    IN  IF \E x \in 1..Len(entries) : entries[x][2] >= Len(mnn)
        THEN [status |-> "NodeIndexError", nodes |-> <<>>, edges |-> <<>>]
        ELSE [status |-> "Ok",
              nodes |-> [x \in 1..Len(mnn) |-> x - 1],
              edges |-> [x \in 1..Len(entries) |->
                            [source |-> entries[x][1],
                             target |-> entries[x][2],
                             weight |-> EdgeDistance(dm, entries[x][1], entries[x][2])]]]

NoGraph == [status |-> "none", nodes |-> <<>>, edges |-> <<>>]

\* neighbour lists as a caller may pass them: up to MaxN nodes, an entry may
\* be the node itself or an index without a node; and the lists of the examples
NeighborSeqs(n) == UNION {[1..l -> 0..n] : l \in 0..1}
NeighborLists ==
    UNION {[1..n -> NeighborSeqs(n)] : n \in 0..MaxN}
    \cup { << <<1>>, <<0>>, <<1>> >>, << <<1, 2>>, <<0, 2>>, <<0, 1>> >> }

GraphDistances ==
    {None, Some(<< <<0, 1, 2>>, <<1, 0, 3>>, <<2, 3, 0>> >>),
     Some(<< <<0>> >>), Some(<< <<0, 1>> >>), Some(<< <<0>>, <<0>> >>)}

GraphInit ==
    /\ mutual_nearest_neighbors \in NeighborLists
    /\ g_distance \in GraphDistances
    /\ g_pc = "start"
    /\ graph_result = NoGraph

GraphIdle ==
    /\ mutual_nearest_neighbors = <<>>
    /\ g_distance = None
    /\ g_pc = "idle"
    /\ graph_result = NoGraph

\* the caller hands the result of k_mutual_nearest_neighbors to convert_to_graph
MknnToGraph ==
    /\ mk_pc = "done"
    /\ mk_result.status = "Ok"
    /\ g_pc = "idle"
    /\ mutual_nearest_neighbors' = mk_result.value
    /\ g_distance' \in {None, Some(mk_matrix)}
    /\ g_pc' = "start"
    /\ UNCHANGED graph_result
    /\ UNCHANGED <<dist_vars, mknn_vars, label_vars, std_vars>>

ConvertToGraph ==
    /\ g_pc = "start"
    /\ graph_result' = convert_to_graph(mutual_nearest_neighbors, g_distance)
    /\ g_pc' = "done"
    /\ UNCHANGED <<mutual_nearest_neighbors, g_distance>>
    /\ UNCHANGED <<dist_vars, mknn_vars, label_vars, std_vars>>

GraphNext ==
    \/ MknnNext
    \/ MknnToGraph
    \/ ConvertToGraph

----------------------------------------------------------------------------
\* netview.rs: Netview::graph_from_vecs

\* dist_matrix and k as passed in; the abstraction runs with
\* is_lower_triangular = false and without a pool
GfvInit ==
    /\ distance_matrix \in DistInputs
    /\ is_lower_triangular = FALSE
    /\ num_threads = None
    /\ chunk_size = None
    /\ dist_pc = "run"
    /\ next_row = 0
    /\ running = {}
    /\ task_out = <<>>
    /\ distances = <<>>
    /\ dist_result = NoResult
    /\ mk_matrix = <<>>
    /\ k \in 0..(MaxN + 1)
    /\ mk_pc = "idle"
    /\ matrix = <<>>
    /\ nearest_neighbors = <<>>
    /\ mk_result = NoResult

\* k_mutual_nearest_neighbors(&distance_of_distances, k)
GfvMknn ==
    /\ dist_pc = "done"
    /\ dist_result.status = "Ok"
    /\ mk_pc = "idle"
    /\ mk_matrix' = dist_result.value
    /\ mk_pc' = "start"
    /\ UNCHANGED <<k, matrix, nearest_neighbors, mk_result>>
    /\ UNCHANGED <<dist_vars, graph_vars, label_vars, std_vars>>

\* convert_to_graph(&mutual_nearest_neighbors, Some(&dist_matrix), ..)
GfvGraph ==
    /\ dist_pc = "done"
    /\ mk_pc = "done"
    /\ mk_result.status = "Ok"
    /\ g_pc = "idle"
    /\ mutual_nearest_neighbors' = mk_result.value
    /\ g_distance' = Some(distance_matrix)
    /\ g_pc' = "start"
    /\ UNCHANGED graph_result
    /\ UNCHANGED <<dist_vars, mknn_vars, label_vars, std_vars>>

\* the call is over: a panic, an error passed on by `?`, or the graph
GfvEnded ==
    \/ dist_pc = "done" /\ dist_result.status # "Ok"
    \/ mk_pc = "done" /\ mk_result.status # "Ok"
    \/ g_pc = "done"

GfvNext ==
    \/ EddSequentialRow
    \/ EddFill
    \/ GfvMknn
    \/ MknnNext
    \/ GfvGraph
    \/ ConvertToGraph

----------------------------------------------------------------------------
\* Exact arithmetic for the f64 scores: fractions n/d with d > 0, in lowest terms

RECURSIVE Gcd(_, _)
Gcd(a, b) == IF b = 0 THEN a ELSE Gcd(b, a % b)

Abs(a) == IF a < 0 THEN 0 - a ELSE a

Frac(a, b) ==
    LET sgn == IF b < 0 THEN 0 - 1 ELSE 1
        g == Gcd(Abs(a), Abs(b))
    IN  IF a = 0 THEN [n |-> 0, d |-> 1]
        ELSE [n |-> (sgn * a) \div g, d |-> (sgn * b) \div g]

Num(a) == [n |-> a, d |-> 1]
RAdd(x, y) == Frac(x.n * y.d + y.n * x.d, x.d * y.d)
RSub(x, y) == Frac(x.n * y.d - y.n * x.d, x.d * y.d)
RMul(x, y) == Frac(x.n * y.n, x.d * y.d)
RDiv(x, y) == Frac(x.n * y.d, x.d * y.n)
RLess(x, y) == x.n * y.d < y.n * x.d

RECURSIVE RSum(_)
RSum(xs) == IF xs = <<>> THEN Num(0) ELSE RAdd(Head(xs), RSum(Tail(xs)))

----------------------------------------------------------------------------
\* netview.rs: NetviewGraph, NodeLabel, EdgeLabel

NodeLabel(index, id, label) ==
    [index |-> index, id |-> id, label |-> label, label_confidence |-> 0]

EdgeLabel(index, source, target, weight, af) ==
    [index |-> index, source |-> source, target |-> target, weight |-> weight,
     ani |-> None, aai |-> None, af |-> af]

NoneStr == [some |-> FALSE, val |-> ""]

NodeCount(g) == Len(g.nodes)
NodeIndices(g) == [x \in 1..Len(g.nodes) |-> x - 1]
NodeWeight(g, v) == g.nodes[v + 1]

\* petgraph: one neighbour per incident edge of the undirected graph
IncidentEdges(g, v) ==
    SelectSeq(g.edges, LAMBDA e : e.source = v \/ e.target = v)

OtherEnd(e, v) == IF e.source = v THEN e.target ELSE e.source

Neighbors(g, v) ==
    LET inc == IncidentEdges(g, v)
    IN  [x \in 1..Len(inc) |-> OtherEnd(inc[x], v)]

\* petgraph find_edge on an undirected graph: the outgoing edges of a, latest
\* first, then the incoming ones
find_edge(g, a, b) ==
    LET out == {x \in 1..Len(g.edges) : g.edges[x].source = a /\ g.edges[x].target = b}
        inc == {x \in 1..Len(g.edges) : g.edges[x].target = a /\ g.edges[x].source = b}
        Latest(S) == CHOOSE x \in S : \A y \in S : y <= x
    IN  IF out # {} THEN g.edges[Latest(out)] ELSE g.edges[Latest(inc)]

----------------------------------------------------------------------------
\* centrality.rs

RMinOf(xs) == CHOOSE x \in xs : \A y \in xs : ~RLess(y, x)
RMaxOf(xs) == CHOOSE x \in xs : \A y \in xs : ~RLess(x, y)

\* a rescaling by the maximum alone
standardize_centrality_by_max(c) ==
    IF DOMAIN c = {} THEN c
    ELSE LET vals == {c[v] : v \in DOMAIN c}
             min_val == RMinOf(vals)
             max_val == RMaxOf(vals)
         IN  IF RLess(min_val, max_val)
             THEN [v \in DOMAIN c |-> RDiv(c[v], max_val)]
             ELSE c

standardize_centrality(c) ==
    IF DOMAIN c = {} THEN c
    ELSE LET vals == {c[v] : v \in DOMAIN c}
             min_val == RMinOf(vals)
             max_val == RMaxOf(vals)
         IN  IF RLess(min_val, max_val)
             THEN [v \in DOMAIN c |-> RDiv(RSub(c[v], min_val), RSub(max_val, min_val))]
             ELSE c

\* the finite scores a map may hold before it is standardized
ScoreValues == {Num(0), Num(1), Num(2), Num(4)}

ScoreMaps == UNION {[0..(n - 1) -> ScoreValues] : n \in 0..MaxN}

StdInit ==
    /\ scores \in ScoreMaps
    /\ std_calls = 0

StdIdle ==
    /\ scores = <<>>
    /\ std_calls = 0

\* one call standardize_centrality(&mut scores)
StandardizeCentrality ==
    /\ std_calls < MaxStdCalls
    /\ scores' = standardize_centrality(scores)
    /\ std_calls' = std_calls + 1
    /\ UNCHANGED <<dist_vars, mknn_vars, graph_vars, label_vars>>

StdNext == StandardizeCentrality

degree_centrality(g, standardized) ==
    LET c == [v \in 0..(NodeCount(g) - 1) |-> Num(Len(Neighbors(g, v)))]
    IN  IF standardized THEN standardize_centrality(c) ELSE c

\* petgraph dijkstra: the cost of the cheapest path to every reachable node
\* (Unreached: no path), by relaxing every edge NodeCount times; the costs are
\* a sequence indexed by node + 1
Unreached == 0 - 1

RelaxNode(g, dist, v) ==
    LET via == {dist[OtherEnd(g.edges[x], v) + 1] + g.edges[x].weight :
                   x \in {y \in 1..Len(g.edges) :
                            /\ g.edges[y].source = v \/ g.edges[y].target = v
                            /\ dist[OtherEnd(g.edges[y], v) + 1] # Unreached}}
        cand == via \cup (IF dist[v + 1] = Unreached THEN {} ELSE {dist[v + 1]})
    IN  IF cand = {} THEN Unreached
        ELSE CHOOSE c \in cand : \A o \in cand : c <= o

RECURSIVE RelaxFrom(_, _, _)
RelaxFrom(g, dist, v) ==
    IF v >= Len(dist) THEN <<>>
    ELSE <<RelaxNode(g, dist, v)>> \o RelaxFrom(g, dist, v + 1)

RECURSIVE RelaxTimes(_, _, _)
RelaxTimes(g, dist, rounds) ==
    IF rounds = 0 THEN dist ELSE RelaxTimes(g, RelaxFrom(g, dist, 0), rounds - 1)

RECURSIVE SourceOnly(_, _, _)
SourceOnly(n, source, v) ==
    IF v >= n THEN <<>>
    ELSE <<IF v = source THEN 0 ELSE Unreached>> \o SourceOnly(n, source, v + 1)

dijkstra(g, source) ==
    RelaxTimes(g, SourceOnly(NodeCount(g), source, 0), NodeCount(g))

ReachedIn(paths) == {v \in 0..(Len(paths) - 1) : paths[v + 1] # Unreached}
Reached(g, source) == ReachedIn(dijkstra(g, source))

RECURSIVE SeqSum(_)
SeqSum(xs) == IF xs = <<>> THEN 0 ELSE Head(xs) + SeqSum(Tail(xs))

ClosenessOf(g, v) ==
    LET shortest_paths == dijkstra(g, v)
        reached == SelectSeq(shortest_paths, LAMBDA c : c # Unreached)
        total_distance == SeqSum(reached)
    IN  IF total_distance > 0
        THEN Frac(Len(reached) - 1, total_distance)
        ELSE Num(0)

closeness_centrality(g, standardized) ==
    LET c == [v \in 0..(NodeCount(g) - 1) |-> ClosenessOf(g, v)]
    IN  IF standardized THEN standardize_centrality(c) ELSE c

\* betweenness_centrality: the sources whose shortest-path map holds a target
\* other than the source itself; for such a pair the `while let` loop is entered
BetweennessSpinSources(g) ==
    {v \in 0..(NodeCount(g) - 1) : Reached(g, v) # {v}}

\* betweenness when no source reaches another node: every score stays 0
betweenness_centrality_isolated(g, standardized) ==
    LET c == [v \in 0..(NodeCount(g) - 1) |-> Num(0)]
    IN  IF standardized THEN standardize_centrality(c) ELSE c

----------------------------------------------------------------------------
\* label.rs: label_propagation

\* impl Default for VoteWeights
DefaultVoteWeights ==
    [centrality |-> Num(1), weight |-> Num(2), af |-> Num(1), ani |-> Num(0), aai |-> Num(0)]

\* the weights of the convergence scenario: weight 1, every other channel 0
WeightOnlyVoteWeights ==
    [centrality |-> Num(0), weight |-> Num(1), af |-> Num(0), ani |-> Num(0), aai |-> Num(0)]

\* graphs: node 0 has no id; distances on the percent scale
NodeIds == <<NoneStr, Some("s1"), Some("s2"), Some("s3")>>
LabelValues == {NoneStr, Some("A"), Some("B")}

E01 == <<0, 1, 10, Some(50)>>
E02 == <<0, 2, 10, Some(50)>>
E12 == <<1, 2, 20, None>>
E10 == <<1, 0, 10, Some(50)>>
E20 == <<2, 0, 10, Some(50)>>

\* no edge, a path centred on node 0, a triangle, the path with every edge
\* inserted from both ends (as convert_to_graph inserts a mutual pair), and
\* the ring of four nodes with uniform weights
EdgeShapes ==
    { <<3, <<>> >>,
      <<3, <<E01, E02>> >>,
      <<3, <<E01, E02, E12>> >>,
      <<3, <<E01, E10, E02, E20>> >>,
      <<4, << <<0, 1, 10, None>>, <<1, 2, 10, None>>,
              <<2, 3, 10, None>>, <<3, 0, 10, None>> >> >> }

GraphOf(shape, labels) ==
    [nodes |-> [x \in 1..shape[1] |-> NodeLabel(x - 1, NodeIds[x], labels[x])],
     edges |-> [x \in 1..Len(shape[2]) |->
                  EdgeLabel(x - 1, shape[2][x][1], shape[2][x][2],
                            shape[2][x][3], shape[2][x][4])]]

LabelGraphs ==
    UNION {{GraphOf(shape, labels) : labels \in [1..shape[1] -> LabelValues]} :
            shape \in EdgeShapes}

EmptyGraph == [nodes |-> <<>>, edges |-> <<>>]

\* <<vote_weights, neighbor_centrality_vote, distance_percent>>
VoteSettings ==
    { <<DefaultVoteWeights, FALSE, TRUE>>,
      <<DefaultVoteWeights, TRUE, FALSE>>,
      <<WeightOnlyVoteWeights, FALSE, FALSE>> }

\* <<propagate_on_unlabeled, query_nodes>>
TargetSelections ==
    { <<TRUE, None>>, <<TRUE, Some(<<"s1">>)>>,
      <<FALSE, Some(<<"s2", "zz">>)>>, <<FALSE, None>> }

LabelInit ==
    /\ graph \in LabelGraphs
    /\ centrality_metric \in {"Betweenness", "Degree", "Closeness"}
    /\ max_iterations \in {0, 1, MaxIterations}
    /\ \E vs \in VoteSettings :
        /\ vote_weights = vs[1]
        /\ neighbor_centrality_vote = vs[2]
        /\ distance_percent = vs[3]
    /\ \E ts \in TargetSelections :
        /\ propagate_on_unlabeled = ts[1]
        /\ query_nodes = ts[2]
    /\ lp_pc = "start"
    /\ centrality = <<>>
    /\ target_nodes = <<>>
    /\ iter = 0
    /\ passes = 0
    /\ vote_pos = 0
    /\ new_labels = <<>>
    /\ label_votes = <<>>
    /\ bc_source = 0
    /\ predecessors = <<>>

LabelIdle ==
    /\ graph = EmptyGraph
    /\ centrality_metric = "Degree"
    /\ max_iterations = 0
    /\ vote_weights = DefaultVoteWeights
    /\ neighbor_centrality_vote = FALSE
    /\ distance_percent = FALSE
    /\ query_nodes = None
    /\ propagate_on_unlabeled = FALSE
    /\ lp_pc = "idle"
    /\ centrality = <<>>
    /\ target_nodes = <<>>
    /\ iter = 0
    /\ passes = 0
    /\ vote_pos = 0
    /\ new_labels = <<>>
    /\ label_votes = <<>>
    /\ bc_source = 0
    /\ predecessors = <<>>

\* a selection that looks at query_nodes before propagate_on_unlabeled
TargetNodesQueryFirst(g, pou, q) ==
    IF q.some
    THEN SelectSeq(NodeIndices(g),
                   LAMBDA v : NodeWeight(g, v).id.some
                              /\ Contains(q.val, NodeWeight(g, v).id.val))
    ELSE IF pou
    THEN SelectSeq(NodeIndices(g), LAMBDA v : ~NodeWeight(g, v).label.some)
    ELSE NodeIndices(g)

\* the target set: unlabelled nodes, else the nodes named by query_nodes, else all
TargetNodes(g, pou, q) ==
    IF pou
    THEN SelectSeq(NodeIndices(g), LAMBDA v : ~NodeWeight(g, v).label.some)
    ELSE IF q.some
    THEN SelectSeq(NodeIndices(g),
                   LAMBDA v : NodeWeight(g, v).id.some
                              /\ Contains(q.val, NodeWeight(g, v).id.val))
    ELSE NodeIndices(g)

Percent(opt) == IF opt.some THEN Frac(opt.val, 100) ELSE Num(0)

\* the vote with the distance itself in the place of the similarity
VoteWeightOfDistance(g, c, v, u) ==
    LET edge == find_edge(g, v, u)
        weight == IF distance_percent THEN Frac(edge.weight, 100) ELSE Num(edge.weight)
        base == RAdd(RAdd(RAdd(RAdd(RMul(weight, vote_weights.weight),
                                    RMul(vote_weights.ani, Percent(edge.ani))),
                               RMul(vote_weights.aai, Percent(edge.aai))),
                          RMul(vote_weights.af, Percent(edge.af))),
                     RMul(vote_weights.centrality, c[v]))
    IN  IF neighbor_centrality_vote THEN RAdd(base, c[u]) ELSE base

\* the vote of the labelled neighbour u for node v
VoteWeight(g, c, v, u) ==
    LET edge == find_edge(g, v, u)
        ani == Percent(edge.ani)
        aai == Percent(edge.aai)
        af == Percent(edge.af)
        weight == IF distance_percent
                  THEN RSub(Num(1), Frac(edge.weight, 100))
                  ELSE RSub(Num(1), Num(edge.weight))
        base == RAdd(RAdd(RAdd(RAdd(RMul(weight, vote_weights.weight),
                                    RMul(vote_weights.ani, ani)),
                               RMul(vote_weights.aai, aai)),
                          RMul(vote_weights.af, af)),
                     RMul(vote_weights.centrality, c[v]))
    IN  IF neighbor_centrality_vote THEN RAdd(base, c[u]) ELSE base

\* label_votes: the tally of every label carried by a neighbour of v
LabelVotes(g, c, v) ==
    LET nb == Neighbors(g, v)
        labelled == SelectSeq(nb, LAMBDA u : NodeWeight(g, u).label.some)
        labels == {NodeWeight(g, labelled[x]).label.val : x \in 1..Len(labelled)}
    IN  [l \in labels |->
            LET voters == SelectSeq(labelled, LAMBDA u : NodeWeight(g, u).label.val = l)
            IN  RSum([x \in 1..Len(voters) |-> VoteWeight(g, c, v, voters[x])])]

\* label_votes.into_iter().max_by(..): the HashMap yields its entries in an
\* arbitrary order and max_by keeps the last maximum, so any label with the
\* highest tally may be returned
MaxByVote(votes) ==
    {l \in DOMAIN votes : \A o \in DOMAIN votes : ~RLess(votes[l], votes[o])}

\* a write loop that gives every node its entry of new_labels, set or not
ApplyNewLabelsOverwrite(nodes, proposals) ==
    [x \in 1..Len(nodes) |-> [nodes[x] EXCEPT !.label = proposals[x]]]

\* the write loop that also stamps a confidence on the node
ApplyNewLabelsStamped(nodes, proposals) ==
    [x \in 1..Len(nodes) |->
        IF proposals[x].some
        THEN [nodes[x] EXCEPT !.label = proposals[x], !.label_confidence = 1]
        ELSE nodes[x]]

\* the write loop over new_labels
ApplyNewLabels(nodes, proposals) ==
    [x \in 1..Len(nodes) |->
        IF proposals[x].some THEN [nodes[x] EXCEPT !.label = proposals[x]]
        ELSE nodes[x]]

\* centrality for Degree and Closeness, and for Betweenness on a graph in which
\* no node reaches another one
LPCentrality ==
    /\ lp_pc = "start"
    /\ \/ /\ centrality_metric = "Degree"
          /\ centrality' = degree_centrality(graph, TRUE)
       \/ /\ centrality_metric = "Closeness"
          /\ centrality' = closeness_centrality(graph, TRUE)
       \/ /\ centrality_metric = "Betweenness"
          /\ BetweennessSpinSources(graph) = {}
          /\ centrality' = betweenness_centrality_isolated(graph, TRUE)
    /\ lp_pc' = "targets"
    /\ UNCHANGED <<graph, lp_args, label_votes, std_vars, target_nodes, iter, passes, vote_pos,
                   new_labels, bc_source, predecessors>>
    /\ UNCHANGED <<dist_vars, mknn_vars, graph_vars>>

\* betweenness_centrality: the first source that reaches another node, and any
\* such target of its shortest-path map: predecessors = vec![target]
BetweennessEnter ==
    /\ lp_pc = "start"
    /\ centrality_metric = "Betweenness"
    /\ BetweennessSpinSources(graph) # {}
    /\ LET source == CHOOSE v \in BetweennessSpinSources(graph) :
                        \A o \in BetweennessSpinSources(graph) : v <= o
       IN  /\ bc_source' = source
           /\ \E target \in Reached(graph, source) \ {source} :
                predecessors' = <<target>>
    /\ centrality' = [v \in 0..(NodeCount(graph) - 1) |-> Num(0)]
    /\ lp_pc' = "bc_check"
    /\ UNCHANGED <<graph, lp_args, label_votes, std_vars, target_nodes, iter, passes, vote_pos, new_labels>>
    /\ UNCHANGED <<dist_vars, mknn_vars, graph_vars>>

\* while let Some(&predecessor) = predecessors.last(): break at the source
BetweennessCheck ==
    /\ lp_pc = "bc_check"
    /\ lp_pc' = IF predecessors[Len(predecessors)] = bc_source
                THEN "bc_break" ELSE "bc_push"
    /\ UNCHANGED <<graph, lp_args, label_votes, std_vars, centrality, target_nodes, iter, passes,
                   vote_pos, new_labels, bc_source, predecessors>>
    /\ UNCHANGED <<dist_vars, mknn_vars, graph_vars>>

\* predecessors.push(predecessor); centrality[predecessor] += 1.0
\* (the vector and the score are tracked up to MaxPredecessors)
BetweennessPush ==
    /\ lp_pc = "bc_push"
    /\ LET predecessor == predecessors[Len(predecessors)]
       IN  /\ predecessors' = IF Len(predecessors) < MaxPredecessors
                              THEN Append(predecessors, predecessor)
                              ELSE predecessors
           /\ centrality' = [centrality EXCEPT ![predecessor] =
                                IF @.n < MaxPredecessors THEN RAdd(@, Num(1)) ELSE @]
    /\ lp_pc' = "bc_check"
    /\ UNCHANGED <<graph, lp_args, label_votes, std_vars, target_nodes, iter, passes, vote_pos,
                   new_labels, bc_source>>
    /\ UNCHANGED <<dist_vars, mknn_vars, graph_vars>>

LPSelectTargets ==
    /\ lp_pc = "targets"
    /\ target_nodes' = TargetNodes(graph, propagate_on_unlabeled, query_nodes)
    /\ lp_pc' = "loop"
    /\ UNCHANGED <<graph, lp_args, label_votes, std_vars, centrality, iter, passes, vote_pos,
                   new_labels, bc_source, predecessors>>
    /\ UNCHANGED <<dist_vars, mknn_vars, graph_vars>>

\* for iter in 0..max_iterations: the next pass starts, or the loop is over
LPLoop ==
    /\ lp_pc = "loop"
    /\ IF iter < max_iterations
       THEN /\ lp_pc' = "vote"
            /\ passes' = passes + 1
            /\ vote_pos' = 1
            /\ new_labels' = [x \in 1..NodeCount(graph) |-> NoneStr]
       ELSE /\ lp_pc' = "done"
            /\ UNCHANGED <<passes, vote_pos, new_labels>>
    /\ UNCHANGED <<graph, lp_args, label_votes, std_vars, centrality, target_nodes, iter, bc_source,
                   predecessors>>
    /\ UNCHANGED <<dist_vars, mknn_vars, graph_vars>>

\* the same iteration with the proposal written to the node at once
LPVoteWriteThrough ==
    /\ lp_pc = "vote"
    /\ vote_pos <= Len(target_nodes)
    /\ LET node == target_nodes[vote_pos]
           votes == LabelVotes(graph, centrality, node)
       IN  /\ label_votes' = votes
           /\ IF DOMAIN votes = {}
              THEN UNCHANGED <<new_labels, graph>>
              ELSE \E best_label \in MaxByVote(votes) :
                       /\ new_labels' = [new_labels EXCEPT ![node + 1] = Some(best_label)]
                       /\ graph' = [graph EXCEPT !.nodes[node + 1].label = Some(best_label)]
    /\ vote_pos' = vote_pos + 1
    /\ UNCHANGED <<lp_args, std_vars, lp_pc, centrality, target_nodes, iter, passes,
                   bc_source, predecessors>>
    /\ UNCHANGED <<dist_vars, mknn_vars, graph_vars>>

\* one iteration of `for node in &target_nodes`: tally and proposal
LPVote ==
    /\ lp_pc = "vote"
    /\ vote_pos <= Len(target_nodes)
    /\ LET node == target_nodes[vote_pos]
           votes == LabelVotes(graph, centrality, node)
       IN  /\ label_votes' = votes
           /\ IF DOMAIN votes = {}
              THEN UNCHANGED new_labels
              ELSE \E best_label \in MaxByVote(votes) :
                       new_labels' = [new_labels EXCEPT ![node + 1] = Some(best_label)]
    /\ vote_pos' = vote_pos + 1
    /\ UNCHANGED <<graph, lp_args, std_vars, lp_pc, centrality, target_nodes, iter, passes,
                   bc_source, predecessors>>
    /\ UNCHANGED <<dist_vars, mknn_vars, graph_vars>>

\* the proposals are written; label_changed is set by every write
LPApply ==
    /\ lp_pc = "vote"
    /\ vote_pos > Len(target_nodes)
    /\ graph' = [graph EXCEPT !.nodes = ApplyNewLabels(graph.nodes, new_labels)]
    /\ LET label_changed == \E x \in 1..Len(new_labels) : new_labels[x].some
       IN  IF ~label_changed
           THEN lp_pc' = "done" /\ UNCHANGED iter
           ELSE lp_pc' = "loop" /\ iter' = iter + 1
    /\ UNCHANGED <<lp_args, label_votes, std_vars, centrality, target_nodes, passes, vote_pos, new_labels,
                   bc_source, predecessors>>
    /\ UNCHANGED <<dist_vars, mknn_vars, graph_vars>>

LabelNext ==
    \/ LPCentrality
    \/ BetweennessEnter
    \/ BetweennessCheck
    \/ BetweennessPush
    \/ LPSelectTargets
    \/ LPLoop
    \/ LPVote
    \/ LPApply

----------------------------------------------------------------------------
\* Specifications

MknnStart == DistIdle /\ MknnInit /\ GraphIdle /\ LabelIdle /\ StdIdle

SpecMknn == MknnStart /\ [][MknnNext]_vars

GraphStart ==
    /\ DistIdle
    /\ LabelIdle
    /\ StdIdle
    /\ \/ MknnInit /\ GraphIdle
       \/ MknnIdle /\ GraphInit

SpecGraph == GraphStart /\ [][GraphNext]_vars

\* degree_centrality(&graph, standardized) on the graph of convert_to_graph;
\* std_calls tells whether standardize_centrality was called on the map
DegreeOfGraph ==
    /\ g_pc = "done"
    /\ graph_result.status = "Ok"
    /\ \E standardized \in BOOLEAN :
          /\ centrality' = degree_centrality(graph_result, standardized)
          /\ std_calls' = IF standardized THEN 1 ELSE 0
    /\ UNCHANGED <<graph, lp_args, label_votes, scores, lp_pc, target_nodes, iter, passes, vote_pos,
                   new_labels, bc_source, predecessors>>
    /\ UNCHANGED <<dist_vars, mknn_vars, graph_vars>>

DegreeNext == GraphNext \/ DegreeOfGraph

SpecDegree == GraphStart /\ [][DegreeNext]_vars

LabelStart == DistIdle /\ MknnIdle /\ GraphIdle /\ LabelInit /\ StdIdle

SpecLabel == LabelStart /\ [][LabelNext]_vars

LPPositions ==
    {"start", "bc_check", "bc_push", "bc_break", "targets", "loop", "vote", "done"}

\* the positions at which the call has a next step to take
LPRunning == lp_pc \in LPPositions \ {"bc_break", "done"}

\* a step of the call, told by what every action of LabelNext does: it leaves
\* the program position or moves on to the next target of the pass
LPStep ==
    /\ LPRunning
    /\ \E pos \in LPPositions, n \in {vote_pos, vote_pos + 1, 1} :
          /\ lp_pc' = pos
          /\ vote_pos' = n

\* the call runs on one thread that always takes its next step
FairSpecLabel == SpecLabel /\ WF_<<lp_pc, vote_pos>>(LPStep)

StdStart == DistIdle /\ MknnIdle /\ GraphIdle /\ LabelIdle /\ StdInit

SpecStandardize == StdStart /\ [][StdNext]_vars

DistStart == DistInit /\ MknnIdle /\ GraphIdle /\ LabelIdle /\ StdIdle

GfvStart == GfvInit /\ GraphIdle /\ LabelIdle /\ StdIdle

SpecGfv == GfvStart /\ [][GfvNext]_vars

SpecDist == DistStart /\ [][DistNext]_vars

----------------------------------------------------------------------------
\* Properties of euclidean_distance_of_distances

DistN == Len(distance_matrix)
DistReturned == dist_pc = "done" /\ dist_result.status = "Ok"

\* the shapes the data model allows for the chosen mode
DistInputWellFormed ==
    IF is_lower_triangular
    THEN IsLowerTriangular(distance_matrix) \/ IsSquare(distance_matrix)
    ELSE IsSquare(distance_matrix)

LowerLookup(m, x, col) == Cell(m, Max2(x, col), Min2(x, col))

RECURSIVE SumOver(_, _)
SumOver(f, S) ==
    IF S = {} THEN 0
    ELSE LET x == CHOOSE y \in S : TRUE IN f[x] + SumOver(f, S \ {x})

ProfileDistance(m, i, j) ==
    Sqrt(SumOver([col \in 0..(Len(m) - 1) |->
                    (LowerLookup(m, i, col) - LowerLookup(m, j, col))
                    * (LowerLookup(m, i, col) - LowerLookup(m, j, col))],
                 0..(Len(m) - 1)))

\* the sequential branch, as a function of the input
SequentialDistances(m, lower) ==
    FlattenSeq([x \in 1..Len(m) |-> RowPairs(m, lower, x - 1)])

SequentialResult(m, lower) ==
    IF \E i \in 0..(Len(m) - 1) : RowPanics(m, lower, i) THEN Panic
    ELSE Ok(FillMatrix(ZeroMatrix(Len(m)), SequentialDistances(m, lower)))

PairCount(ds, i, j) ==
    Cardinality({x \in 1..Len(ds) : ds[x][1] = i /\ ds[x][2] = j})

----------------------------------------------------------------------------
\* Properties of k_mutual_nearest_neighbors and convert_to_graph

MkN == Len(mk_matrix)
MknnReturned == mk_pc = "done" /\ mk_result.status = "Ok"

\* a comes before b in the order of row x: ascending distance, then index
ComesBefore(m, x, a, b) ==
    \/ Cell(m, x, a) < Cell(m, x, b)
    \/ Cell(m, x, a) = Cell(m, x, b) /\ a < b

\* NN_k(x): the first kk other indices in that order
NNk(m, x, kk) ==
    LET others == (0..(Len(m) - 1)) \ {x}
    IN  {j \in others :
            Cardinality({a \in others : ComesBefore(m, x, a, j)}) < kk}

GraphBuilt == g_pc = "done" /\ graph_result.status = "Ok"

NoSelfLoops(g) == \A x \in 1..Len(g.edges) : g.edges[x].source # g.edges[x].target

NoParallelEdges(g) ==
    \A x, y \in 1..Len(g.edges) :
        x # y => {g.edges[x].source, g.edges[x].target}
                    # {g.edges[y].source, g.edges[y].target}

\* C2: the graph built by convert_to_graph has no self-loop and at most one
\* edge per unordered pair, and from mkNN output at most N*k/2 edges.
C2_GraphIsSimple ==
    GraphBuilt =>
        /\ NoSelfLoops(graph_result)
        /\ NoParallelEdges(graph_result)
        /\ mk_pc = "done" => 2 * Len(graph_result.edges) <= MkN * k

LPReturned == lp_pc = "done"

\* C3: label_propagation terminates for every centrality metric, and runs at
\* most max_iterations voting passes.
C3_TerminatesWithinMaxIterations ==
    /\ <>LPReturned
    /\ [](passes <= max_iterations)

\* the last proposal of a pass is in and the write loop runs next
PassVoted == lp_pc = "vote" /\ vote_pos > Len(target_nodes)

\* C4: the run stops right after the first pass that leaves every label as it
\* was before the pass.
C4_StopsAfterUnchangedPass ==
    [][(PassVoted /\ graph'.nodes = graph.nodes) => lp_pc' = "done"]_vars

LabelOrder == <<"A", "B">>

LexSmallest(labels) ==
    LabelOrder[CHOOSE x \in 1..Len(LabelOrder) :
                  /\ LabelOrder[x] \in labels
                  /\ \A y \in 1..(x - 1) : LabelOrder[y] \notin labels]

\* C5: the label proposed for a node is the lexicographically smallest of the
\* labels with the highest tally, so the proposals are a function of the tallies.
C5_TieBreakLexicographic ==
    lp_pc = "vote" =>
        \A x \in 1..(vote_pos - 1) :
            LET node == target_nodes[x]
                votes == LabelVotes(graph, centrality, node)
            IN  new_labels[node + 1] =
                    IF DOMAIN votes = {} THEN NoneStr
                    ELSE Some(LexSmallest(MaxByVote(votes)))

IsTarget(v) == Contains(target_nodes, v)

TargetsSelected == lp_pc \in {"loop", "vote", "done"}

\* C6: a step of label_propagation changes no edge, no node index, id or
\* label_confidence and no label of a node outside the target set; the target
\* set is the one computed from the graph as passed in and stays as it is
\* through every pass.
C6_OnlyTargetLabelsChange ==
    [][/\ graph'.edges = graph.edges
       /\ Len(graph'.nodes) = Len(graph.nodes)
       /\ \A x \in 1..Len(graph.nodes) :
            /\ graph'.nodes[x].index = graph.nodes[x].index
            /\ graph'.nodes[x].id = graph.nodes[x].id
            /\ graph'.nodes[x].label_confidence = graph.nodes[x].label_confidence
            /\ graph'.nodes[x].label # graph.nodes[x].label =>
                  TargetsSelected /\ IsTarget(x - 1)
       /\ TargetsSelected => target_nodes' = target_nodes
       /\ (~TargetsSelected /\ TargetsSelected') =>
            target_nodes' = TargetNodes(graph, propagate_on_unlabeled, query_nodes)
      ]_vars

\* the second pass under propagate_on_unlabeled: a target labelled by the first
\* pass is still a target next to a node that never was one
C6_Witness ==
    /\ passes >= 2
    /\ propagate_on_unlabeled
    /\ \E v \in 0..(NodeCount(graph) - 1) :
          IsTarget(v) /\ NodeWeight(graph, v).label.some
    /\ \E v \in 0..(NodeCount(graph) - 1) : ~IsTarget(v)

\* C11: an empty matrix, or one with a row longer than N, gives InvalidMatrix
\* and no result for every k: the matrix test comes before the k test.
C11_InvalidMatrixFirst ==
    (mk_pc = "done" /\ MatrixInvalid(mk_matrix)) =>
        /\ mk_result.status = "InvalidMatrix"
        /\ mk_result.value = <<>>

\* a row longer than N together with a k that is out of range as well
C11_Witness ==
    /\ mk_pc = "done"
    /\ MkN > 0
    /\ \E i \in 0..(MkN - 1) : RowLen(mk_matrix, i) > MkN
    /\ KOutOfRange(k, MkN)
    /\ mk_result.status = "InvalidMatrix"

\* C12: with is_lower_triangular = false a matrix that is not square is
\* answered with the error InvalidDimensions: no panic, no matrix.
C12_NonSquareIsInvalidDimensions ==
    (dist_pc = "done" /\ ~is_lower_triangular /\ ~IsSquare(distance_matrix)) =>
        dist_result.status = "InvalidDimensions"

\* the target selection is a list of identifiers, one of which no node carries
UnknownQueryId ==
    /\ ~propagate_on_unlabeled
    /\ query_nodes.some
    /\ \E x \in 1..Len(query_nodes.val) :
          \A v \in 0..(NodeCount(graph) - 1) :
              NodeWeight(graph, v).id # Some(query_nodes.val[x])

\* C13: a call whose identifier list names an id that no node carries leaves
\* the graph as it is (it fails with NodeNotFound) and does not propagate on
\* the identifiers that do match.
C13_UnknownIdLeavesGraphUnchanged ==
    [][UnknownQueryId => graph' = graph]_vars

\* the original distance of the pair u, v in either encoding of D
OriginalDistance(d, u, v) == Cell(d, Max2(u, v), Min2(u, v))

GfvValidInput ==
    /\ IsSquare(distance_matrix) \/ IsLowerTriangular(distance_matrix)
    /\ 0 < k /\ k < DistN

\* C14: from an original matrix D in symmetric or in lower-triangular form and
\* a valid k, graph_from_vecs builds a graph in which every edge u -- v
\* carries the weight D[u][v].
C14_EdgeWeightIsOriginalDistance ==
    (GfvEnded /\ GfvValidInput) =>
        /\ GraphBuilt
        /\ \A x \in 1..Len(graph_result.edges) :
              graph_result.edges[x].weight =
                  OriginalDistance(distance_matrix,
                                   graph_result.edges[x].source,
                                   graph_result.edges[x].target)

RowComputed(i) ==
    /\ mk_pc \in {"rows", "done"}
    /\ i < Len(nearest_neighbors)
    /\ nearest_neighbors[i + 1] # "pending"

\* C15: the k-nearest list of row i never holds i, holds the first k other
\* indices in ascending order of (distance, index), so equal distances go to
\* the smaller index, and is that same list whatever the order in which the
\* rows are computed.
C15_KNearestDeterministic ==
    \A i \in 0..(Len(nearest_neighbors) - 1) :
        RowComputed(i) =>
            LET list == nearest_neighbors[i + 1]
            IN  /\ ~Contains(list, i)
                /\ Len(list) = k
                /\ \A x \in 1..Len(list) : list[x] \in NNk(matrix, i, k)
                /\ \A x, y \in 1..Len(list) :
                      x < y => ComesBefore(matrix, i, list[x], list[y])

\* a later row is computed before an earlier one, and an equal distance
\* decides who is in its list
C15_Witness ==
    \E i \in 1..(Len(nearest_neighbors) - 1) :
        /\ RowComputed(i)
        /\ ~RowComputed(0)
        /\ \E a, b \in (0..(Len(matrix) - 1)) \ {i} :
              /\ a < b
              /\ Cell(matrix, i, a) = Cell(matrix, i, b)
              /\ Contains(nearest_neighbors[i + 1], a)
              /\ ~Contains(nearest_neighbors[i + 1], b)

\* S[i][j] = S[j][i] = L[i][j] for j <= i
MirrorOf(l) ==
    [i \in 1..Len(l) |-> [j \in 1..Len(l) |->
        IF j <= i THEN l[i][j] ELSE l[j][i]]]

\* C16: on a lower-triangular matrix L and a valid k the call returns what it
\* returns on the symmetric matrix S of L; make_symmetrical gives exactly S
\* for L and gives a full square matrix back unchanged.
C16_LowerTriangularEquivalent ==
    (mk_pc = "done" /\ 0 < k /\ k < MkN) =>
        /\ IsLowerTriangular(mk_matrix) =>
              /\ matrix = MirrorOf(mk_matrix)
              /\ mk_result.status = "Ok"
              /\ mk_result = k_mutual_nearest_neighbors(MirrorOf(mk_matrix), k)
        /\ IsSquare(mk_matrix) => matrix = mk_matrix

C16_Witness ==
    /\ MknnReturned
    /\ MkN = MaxN
    /\ IsLowerTriangular(mk_matrix)
    /\ matrix # mk_matrix
    /\ \E i, j \in 0..(MkN - 1) :
          /\ i < j
          /\ Cell(matrix, i, j) # 0
          /\ Contains(mk_result.value[i + 1], j)

\* the matrix of test_no_mutual_neighbors
NoMutualMatrix == << <<0, 2, 1>>, <<2, 0, 3>>, <<1, 3, 0>> >>

NoMutualCall == mk_pc = "done" /\ mk_matrix = NoMutualMatrix /\ k = 1

AllEqualOffDiagonal(m) ==
    /\ IsSquare(m)
    /\ \A i, j, x, y \in 0..(Len(m) - 1) :
          (i # j /\ x # y) => Cell(m, i, j) = Cell(m, x, y)

AllEqualCall == mk_pc = "done" /\ AllEqualOffDiagonal(mk_matrix) /\ 0 < k /\ k < MkN

\* the indices lo..hi without i, ascending
RangeWithout(lo, hi, i) == SelectSeq([x \in 1..(hi - lo + 1) |-> lo + x - 1],
                                     LAMBDA j : j # i)

SquareScenario ==
    << <<0, 1, 2, 3>>, <<1, 0, 3, 2>>, <<2, 3, 0, 1>>, <<3, 2, 1, 0>> >>

\* the distinct nodes that share an edge with v
AdjacentNodes(g, v) ==
    {u \in 0..(NodeCount(g) - 1) :
        u # v /\ \E x \in 1..Len(g.edges) :
                    {g.edges[x].source, g.edges[x].target} = {u, v}}

EdgePairs(g) ==
    {{g.edges[x].source, g.edges[x].target} : x \in 1..Len(g.edges)}

DegreeScored == GraphBuilt /\ mk_pc = "done" /\ centrality # <<>> /\ std_calls = 0

\* C19: on the graph built from the mutual neighbour lists the degree
\* centrality of every node is the number of distinct nodes adjacent to it;
\* the 4-node square with k = 2 has the edges {0,1}, {0,2}, {1,3}, {2,3} and
\* degree centrality 2 at every node.
C19_DegreeIsNeighbourCount ==
    DegreeScored =>
        /\ \A v \in 0..(NodeCount(graph_result) - 1) :
              centrality[v] = Num(Cardinality(AdjacentNodes(graph_result, v)))
        /\ (mk_matrix = SquareScenario /\ k = 2) =>
              /\ EdgePairs(graph_result) = {{0, 1}, {0, 2}, {1, 3}, {2, 3}}
              /\ \A v \in 0..3 : centrality[v] = Num(2)

ScoresOf(c) == {c[v] : v \in DOMAIN c}

Spread(c) == DOMAIN c # {} /\ RLess(RMinOf(ScoresOf(c)), RMaxOf(ScoresOf(c)))

StdCall == std_calls' = std_calls + 1

\* C20: a call of standardize_centrality on a map with max > min leaves the
\* minimum 0, the maximum 1 and every value in [0,1]; a call on an empty map
\* or on a map with max = min changes nothing; and a second call changes
\* nothing after the first.
C20_StandardizeIdempotent ==
    [][StdCall =>
          /\ IF Spread(scores)
             THEN /\ DOMAIN scores' = DOMAIN scores
                  /\ RMinOf(ScoresOf(scores')) = Num(0)
                  /\ RMaxOf(ScoresOf(scores')) = Num(1)
                  /\ \A x \in ScoresOf(scores') :
                        ~RLess(x, Num(0)) /\ ~RLess(Num(1), x)
             ELSE scores' = scores
          /\ std_calls >= 1 => scores' = scores]_vars

\* two calls made on a map that the first call rescaled
C20_Witness ==
    /\ std_calls = 2
    /\ \E x \in ScoresOf(scores) : RLess(Num(0), x) /\ RLess(x, Num(1))
    /\ Num(0) \in ScoresOf(scores)
    /\ Num(1) \in ScoresOf(scores)

\* the 3x3 matrix of identical rows
IdenticalRows == << <<0, 1, 1>>, <<1, 0, 1>>, <<1, 1, 0>> >>

IdenticalRowsScored ==
    /\ GraphBuilt
    /\ mk_pc = "done"
    /\ mk_matrix = IdenticalRows
    /\ k = 2
    /\ centrality # <<>>
    /\ std_calls = 1

\* C21: for the 3x3 matrix with every off-diagonal distance 1 and k = 2 the
\* graph is the complete graph on 3 nodes with exactly 3 edges, and the
\* standardized degree centrality is 1 at every node.
C21_IdenticalRowsComplete ==
    IdenticalRowsScored =>
        /\ EdgePairs(graph_result) = {{0, 1}, {0, 2}, {1, 2}}
        /\ Len(graph_result.edges) = 3
        /\ \A v \in 0..2 : centrality[v] = Num(1)

BetweennessCalled == lp_pc = "start" /\ centrality_metric = "Betweenness"

BetweennessReturned == lp_pc \in {"targets", "loop", "vote", "done"}

DegreeOf(g, v) == Cardinality(AdjacentNodes(g, v))

\* C22: betweenness_centrality returns on every graph, also on one with an
\* edge, with one score per node, and a node with at most one neighbour has
\* the score 0 all the way through.
C22_BetweennessTerminates ==
    /\ BetweennessCalled ~> BetweennessReturned
    /\ [](BetweennessReturned => DOMAIN centrality = 0..(NodeCount(graph) - 1))
    /\ []((centrality_metric = "Betweenness" /\ lp_pc \in {"bc_check", "bc_push"}) =>
            \A v \in 0..(NodeCount(graph) - 1) :
                DegreeOf(graph, v) <= 1 => centrality[v] = Num(0))

HasLabelledNeighbour(g, v) ==
    \E x \in 1..Len(Neighbors(g, v)) : NodeWeight(g, Neighbors(g, v)[x]).label.some

\* the call starts and no node of its target set has a labelled neighbour
NoTargetHasLabelledNeighbour ==
    /\ lp_pc = "start"
    /\ LET targets == TargetNodes(graph, propagate_on_unlabeled, query_nodes)
       IN  \A x \in 1..Len(targets) : ~HasLabelledNeighbour(graph, targets[x])

\* C23: when no target has a labelled neighbour the call, allowed at least
\* one pass, makes exactly one pass and returns, and the write loop of any
\* pass leaves the label of a target without a labelled neighbour as it was.
C23_NoLabelledNeighbourOnePass ==
    /\ (NoTargetHasLabelledNeighbour /\ max_iterations >= 1)
           ~> (LPReturned /\ passes = 1)
    /\ [][PassVoted =>
            \A x \in 1..Len(target_nodes) :
                ~HasLabelledNeighbour(graph, target_nodes[x]) =>
                    NodeWeight(graph', target_nodes[x]).label
                        = NodeWeight(graph, target_nodes[x]).label]_vars

\* the node whose tally was taken last in the running pass
JustVoted == lp_pc = "vote" /\ vote_pos > 1

Channel(opt) == IF opt.some THEN Frac(opt.val, 100) ELSE Num(0)

\* w_weight*sim + w_ani*ani/100 + w_aai*aai/100 + w_af*af/100 + w_centrality*C[v]
\* (+ C[u]) for the edge e between v and its neighbour u
StatedVote(e, v, u) ==
    LET sim == IF distance_percent THEN RSub(Num(1), Frac(e.weight, 100))
               ELSE RSub(Num(1), Num(e.weight))
        sum == RAdd(RMul(vote_weights.weight, sim),
               RAdd(RMul(vote_weights.ani, Channel(e.ani)),
               RAdd(RMul(vote_weights.aai, Channel(e.aai)),
               RAdd(RMul(vote_weights.af, Channel(e.af)),
                    RMul(vote_weights.centrality, centrality[v])))))
    IN  IF neighbor_centrality_vote THEN RAdd(sum, centrality[u]) ELSE sum

\* the stated tally of label l at v, one vote per neighbour as the graph
\* lists them (one per incident edge)
StatedTally(v, l) ==
    LET nb == Neighbors(graph, v)
        voters == SelectSeq(nb, LAMBDA u : NodeWeight(graph, u).label = Some(l))
    IN  RSum([x \in 1..Len(voters) |->
                StatedVote(find_edge(graph, v, voters[x]), v, voters[x])])

Voting == lp_pc = "vote" /\ vote_pos <= Len(target_nodes)

\* C25: while the targets of a pass vote, no label is written, so every tally
\* is taken from the labels as they were when the pass began; the write loop
\* then writes exactly the collected proposals; and the centrality map stays
\* what it was before the first pass.
C25_ProposalsFromPassStart ==
    [][/\ Voting =>
            /\ graph' = graph
            /\ label_votes' = LabelVotes(graph, centrality, target_nodes[vote_pos])
       /\ PassVoted =>
            \A x \in 1..Len(graph.nodes) :
                graph'.nodes[x].label =
                    IF new_labels[x].some THEN new_labels[x] ELSE graph.nodes[x].label
       /\ lp_pc \in {"targets", "loop", "vote"} => centrality' = centrality
      ]_vars

\* in a second pass a collected proposal differs from the label its node
\* still carries, and a neighbour of that node votes next
C25_Witness ==
    /\ Voting
    /\ passes >= 2
    /\ \E x \in 1..(vote_pos - 1) :
          /\ new_labels[target_nodes[x] + 1].some
          /\ new_labels[target_nodes[x] + 1] # NodeWeight(graph, target_nodes[x]).label
          /\ NodeWeight(graph, target_nodes[x]).label.some
          /\ Contains(Neighbors(graph, target_nodes[vote_pos]), target_nodes[x])

\* the call is over on a matrix that passes the matrix test, with k = N
KEqualsN == mk_pc = "done" /\ ~MatrixInvalid(mk_matrix) /\ k = MkN

C27_RaggedInputReturns ==
    (mk_pc = "done" /\ ~MatrixInvalid(mk_matrix)) =>
        /\ mk_result.status # "panic"
        /\ (0 < k /\ k < MkN) => mk_result.status = "Ok"

\* the (node, neighbour) entries whose neighbour has a row of its own and
\* whose distance is in the matrix
LookedUpEntries(mnn, dm) ==
    SelectSeq(NeighborEntries(mnn),
              LAMBDA e : e[2] < Len(mnn) /\ HasCell(dm, e[1], e[2]))

\* C28: with a distance matrix convert_to_graph returns Ok with one node per
\* neighbour list and one edge for each entry whose neighbour exists and whose
\* distance is in the matrix, and no edge (and no error) for any other entry.
C28_NoEdgeWithoutDistance ==
    (g_pc = "done" /\ g_distance.some) =>
        /\ graph_result.status = "Ok"
        /\ Len(graph_result.nodes) = Len(mutual_nearest_neighbors)
        /\ LET kept == LookedUpEntries(mutual_nearest_neighbors, g_distance.val)
           IN  /\ Len(graph_result.edges) = Len(kept)
               /\ \A x \in 1..Len(kept) :
                     /\ graph_result.edges[x].source = kept[x][1]
                     /\ graph_result.edges[x].target = kept[x][2]
                     /\ graph_result.edges[x].weight =
                            Cell(g_distance.val, kept[x][1], kept[x][2])

LabelsCarried(g) ==
    {g.nodes[x].label : x \in {y \in 1..Len(g.nodes) : g.nodes[y].label.some}}

\* C29: no step of label_propagation unsets a label, and no step gives a
\* node a label value that no node carried before the step; so after any
\* number of passes every node labelled before the call is labelled and every
\* label value was carried by some node before the call.
C29_LabelsNeitherLostNorInvented ==
    [][/\ \A x \in 1..Len(graph.nodes) :
             graph.nodes[x].label.some => graph'.nodes[x].label.some
       /\ LabelsCarried(graph') \subseteq LabelsCarried(graph)
      ]_vars

\* two passes are written; a label was written, one label value is carried
\* and a node is still unlabelled
C29_Witness ==
    /\ lp_pc \in {"loop", "done"}
    /\ passes >= 2
    /\ \E x \in 1..Len(new_labels) : new_labels[x].some
    /\ Cardinality(LabelsCarried(graph)) = 1
    /\ \E x \in 1..Len(graph.nodes) : ~graph.nodes[x].label.some

\* the nodes the stated precedence selects
StatedTargets ==
    IF propagate_on_unlabeled
    THEN {v \in 0..(NodeCount(graph) - 1) : ~NodeWeight(graph, v).label.some}
    ELSE IF query_nodes.some
    THEN {v \in 0..(NodeCount(graph) - 1) :
            /\ NodeWeight(graph, v).id.some
            /\ \E x \in 1..Len(query_nodes.val) :
                  query_nodes.val[x] = NodeWeight(graph, v).id.val}
    ELSE 0..(NodeCount(graph) - 1)

\* C30: the step that selects the targets takes exactly the unlabelled nodes
\* when propagate_on_unlabeled is set, whatever query_nodes is; otherwise
\* exactly the nodes whose id is in query_nodes when that is supplied (never
\* a node without an id); otherwise every node; each node once.
C30_TargetPrecedence ==
    [][lp_pc = "targets" =>
          /\ {target_nodes'[x] : x \in 1..Len(target_nodes')} = StatedTargets
          /\ Len(target_nodes') = Cardinality(StatedTargets)]_vars

\* propagate_on_unlabeled with a query list that names a labelled node: the
\* targets, before the first pass, are unlabelled nodes the list does not name
C30_Witness ==
    /\ lp_pc = "loop"
    /\ passes = 0
    /\ propagate_on_unlabeled
    /\ query_nodes.some
    /\ target_nodes # <<>>
    /\ \E v \in 0..(NodeCount(graph) - 1) :
          /\ NodeWeight(graph, v).id.some
          /\ Contains(query_nodes.val, NodeWeight(graph, v).id.val)
          /\ ~Contains(target_nodes, v)
    /\ \E x \in 1..Len(target_nodes) :
          ~NodeWeight(graph, target_nodes[x]).id.some

====
